---- MODULE Spec2Model ----
(***************************************************************************)
(* A model of the encrypted vault of src/vault.py and src/ciphers.py:      *)
(* one backing file, one Vault object over it, the record codec, the       *)
(* layered stream cipher, the store / read / scan operations, and the      *)
(* read_chunks generator.                                                  *)
(*                                                                         *)
(* Representation choices                                                  *)
(*  - bytes are sequences over 0..255;                                     *)
(*  - a 64-bit integer field (data_size, timestamp) is held by its eight   *)
(*    little-endian base-256 digits, because a scan with a wrong key can   *)
(*    decode values far beyond TLC's 32-bit integers; offsets derived      *)
(*    from them saturate at Huge, which lies beyond every buffer of the    *)
(*    model;                                                               *)
(*  - SHA3-256 is an ideal hash: a digest is the term (message, number of  *)
(*    hash applications); ChaCha20 is a deterministic keystream of         *)
(*    (key, nonce, position) that is XORed onto the data;                  *)
(*  - what depends on the kind of buffer behind the vault (a seek or a     *)
(*    read far beyond the end: io.BytesIO takes both, a file object may    *)
(*    raise) is explored both ways.                                        *)
(***************************************************************************)
EXTENDS Integers, Sequences, FiniteSets, TLC

(***************************************************************************)
(* Program constants                                                       *)
(***************************************************************************)
N_KEYS == 8
ROUNDS == 1000
NONCE_LEN == 12
NAME_LEN == 64
INT_LEN == 8
DEFAULT_CHUNK_SIZE == 10000000
RECORD_SIZE == NONCE_LEN + NAME_LEN + INT_LEN + INT_LEN
FULL_SIZE == RECORD_SIZE + NONCE_LEN

(***************************************************************************)
(* Bounds of the model                                                     *)
(***************************************************************************)
\* offsets at or beyond Huge are all represented by Huge
Huge == 16777216
\* no write is explored that would make the buffer longer than this
MaxBuffer == 216
\* chunks taken from one read_chunks generator
MaxChunks == 4
\* Vault objects made over the file by new / from_file
MaxSessions == 3
\* the longest buffer a copy may produce: three records
MaxCopyBuffer == 324

(***************************************************************************)
(* Bytes                                                                   *)
(***************************************************************************)
Min(a, b) == IF a < b THEN a ELSE b

\* saturating addition of offsets
Plus(a, b) == Min(a + b, Huge)

Zeros(n) == [i \in 1..n |-> 0]

RECURSIVE Concat(_)
Concat(chunks) ==
    IF chunks = <<>> THEN <<>> ELSE Head(chunks) \o Concat(Tail(chunks))

RECURSIVE BitXor(_, _, _)
BitXor(a, b, n) ==
    IF n = 0 THEN 0
    ELSE ((a + b) % 2) + 2 * BitXor(a \div 2, b \div 2, n - 1)

\* bytewise exclusive or; the first four cases are BitXor computed directly
Xor(a, b) ==
    CASE b = 0 -> a
      [] b = 255 -> 255 - a
      [] b = 128 -> (a + 128) % 256
      [] b = 127 -> (383 - a) % 256
      [] OTHER -> BitXor(a, b, 8)

\* bytes.strip(b'\x00'): NUL bytes are removed at BOTH ends
FirstNonNul(b) ==
    IF \E i \in 1..Len(b) : b[i] # 0
    THEN CHOOSE i \in 1..Len(b) : b[i] # 0 /\ \A j \in 1..(i - 1) : b[j] = 0
    ELSE Len(b) + 1
LastNonNul(b) ==
    IF \E i \in 1..Len(b) : b[i] # 0
    THEN CHOOSE i \in 1..Len(b) : b[i] # 0 /\ \A j \in (i + 1)..Len(b) : b[j] = 0
    ELSE 0
strip(b) == SubSeq(b, FirstNonNul(b), LastNonNul(b))

\* str.encode('utf-8') of a sequence of code points below 65536
RECURSIVE encode(_)
encode(s) ==
    IF s = <<>> THEN <<>>
    ELSE LET c == Head(s) IN
         (IF c < 128 THEN <<c>>
          ELSE IF c < 2048 THEN <<192 + (c \div 64), 128 + (c % 64)>>
          ELSE <<224 + (c \div 4096), 128 + ((c \div 64) % 64), 128 + (c % 64)>>)
         \o encode(Tail(s))

\* a name argument: a str (code points) is encoded, bytes pass unchanged
NameBytes(name) == IF name.isStr THEN encode(name.val) ELSE name.val

(***************************************************************************)
(* 64-bit integers as little-endian digits                                 *)
(***************************************************************************)
\* struct.pack('<Q' / '<q') of a non-negative integer below 2^24
PackInt(n) ==
    [i \in 1..INT_LEN |->
        IF i = 1 THEN n % 256
        ELSE IF i = 2 THEN (n \div 256) % 256
        ELSE IF i = 3 THEN (n \div 65536) % 256
        ELSE 0]

\* the value of an unsigned field as an offset (saturating)
IntOf(d) ==
    IF \A i \in 4..INT_LEN : d[i] = 0
    THEN d[1] + 256 * d[2] + 65536 * d[3]
    ELSE Huge

\* ptr + d >= 2^63: buffer.seek raises OverflowError; the top digit of such
\* a sum is at least 128, or it is 127 with a carry into it
SeekOverflows(ptr, d) ==
    \/ d[INT_LEN] >= 128
    \/ /\ d[INT_LEN] = 127
       /\ \A i \in 4..(INT_LEN - 1) : d[i] = 255
       /\ d[1] + 256 * d[2] + 65536 * d[3] + ptr >= 16777216

(***************************************************************************)
(* ciphers.py: key derivation and the layered stream cipher                *)
(***************************************************************************)
\* the salt table read from salt.dat, one salt per layer
SALTS == [i \in 1..N_KEYS |-> <<i, 2 * i + 1>>]

\* SHA3_256.new(msg): the digest as a term of the ideal hash
SHA3_256(msg) == [msg |-> msg, n |-> 1]

\* hasher = SHA3_256.new(hasher.digest()), r times over
Rehash(h, r) == [h EXCEPT !.n = @ + r]

gen_keys(pwd) ==
    [i \in 1..N_KEYS |-> Rehash(SHA3_256(encode(pwd) \o SALTS[i]), ROUNDS)]

RECURSIVE Weigh(_, _)
Weigh(b, i) == IF i > Len(b) THEN 0 ELSE (i * b[i] + Weigh(b, i + 1)) % 256

\* ChaCha20 accepts nonces of 8 or 12 bytes and raises ValueError otherwise
NonceOk(nonce) == Len(nonce) \in {8, NONCE_LEN}

\* ChaCha20.new(key, nonce): a keystream at position 0
ChaCha20_new(key, nonce) ==
    [seed |-> (7 * Weigh(key.msg, 1) + key.n + 13 * Weigh(nonce, 1)) % 256,
     pos |-> 0]

\* the keystream byte of a layer at position p
Keystream(seed, p) ==
    <<0, 127, 128, 255>>[(((seed * (2 * p + 1) + p * p) \div 16) % 4) + 1]

\* one layer's encrypt / decrypt: XOR with the keystream from its position
ChaCha20_crypt(c, data) ==
    [i \in 1..Len(data) |-> Xor(data[i], Keystream(c.seed, c.pos + i - 1))]

\* CipherGenerator.renew(nonce)
renew(keys, nonce) == [k \in 1..N_KEYS |-> ChaCha20_new(keys[k], nonce)]

\* Cipher.encrypt: each layer in turn
RECURSIVE encrypt_from(_, _, _)
encrypt_from(ciphers, k, data) ==
    IF k > Len(ciphers) THEN data
    ELSE encrypt_from(ciphers, k + 1, ChaCha20_crypt(ciphers[k], data))
encrypt(ciphers, data) == encrypt_from(ciphers, 1, data)

\* Cipher.decrypt: each layer in turn, in the same order
RECURSIVE decrypt_from(_, _, _)
decrypt_from(ciphers, k, data) ==
    IF k > Len(ciphers) THEN data
    ELSE decrypt_from(ciphers, k + 1, ChaCha20_crypt(ciphers[k], data))
decrypt(ciphers, data) == decrypt_from(ciphers, 1, data)

\* the layers after n bytes went through them
Advance(ciphers, n) ==
    [k \in 1..Len(ciphers) |-> [ciphers[k] EXCEPT !.pos = @ + n]]

(***************************************************************************)
(* The buffer: a seekable byte string                                      *)
(***************************************************************************)
\* buffer.read(n) at position p: at most n bytes, fewer at the end
ReadAt(b, p, n) ==
    IF p >= Len(b) \/ n = 0 THEN <<>> ELSE SubSeq(b, p + 1, Min(Len(b), Plus(p, n)))

\* buffer.write(data) at position p: a gap before p is filled with NULs;
\* writing nothing changes nothing
WriteAt(b, p, data) ==
    IF data = <<>> THEN b
    ELSE (IF p <= Len(b) THEN SubSeq(b, 1, p) ELSE b \o Zeros(p - Len(b)))
         \o data
         \o SubSeq(b, p + Len(data) + 1, Len(b))

(***************************************************************************)
(* vault.py: Record                                                        *)
(***************************************************************************)
\* Record.__init__; int(timestamp) is applied by the caller, see int
Record(rec_nonce, nonce, name, data_size, timestamp) ==
    [rec_nonce |-> rec_nonce, nonce |-> nonce, name |-> strip(name),
     data_size |-> data_size, timestamp |-> timestamp, data_ptr |-> 0]

\* int(time.time()): the clock reads thousandths of a second
int(t) == t \div 1000

\* the 'Ns' format: exactly n bytes, truncated or NUL-padded on the right
Fit(b, n) == [i \in 1..n |-> IF i <= Len(b) THEN b[i] ELSE 0]

\* struct.pack(Record.FMT, ...)
pack(nonce, name, data_size, timestamp) ==
    Fit(nonce, NONCE_LEN) \o Fit(name, NAME_LEN) \o data_size \o timestamp

\* struct.unpack(Record.FMT, b), for Len(b) = RECORD_SIZE
unpack(b) ==
    [nonce |-> SubSeq(b, 1, NONCE_LEN),
     name |-> SubSeq(b, NONCE_LEN + 1, NONCE_LEN + NAME_LEN),
     data_size |-> SubSeq(b, NONCE_LEN + NAME_LEN + 1, NONCE_LEN + NAME_LEN + INT_LEN),
     timestamp |-> SubSeq(b, NONCE_LEN + NAME_LEN + INT_LEN + 1, RECORD_SIZE)]

\* Record.dump
dump(rec, keys) ==
    rec.rec_nonce
    \o encrypt(renew(keys, rec.rec_nonce),
               pack(rec.nonce, rec.name, rec.data_size, rec.timestamp))

\* a faulty load that takes data_ptr before it reads the header
load_ptr_before(b, p, rec_nonce, keys) ==
    LET raw == ReadAt(b, p, RECORD_SIZE) IN
    IF ~NonceOk(rec_nonce) \/ Len(raw) # RECORD_SIZE
    THEN [ok |-> FALSE]
    ELSE LET f == unpack(decrypt(renew(keys, rec_nonce), raw)) IN
         [ok |-> TRUE,
          rec |-> [Record(rec_nonce, f.nonce, f.name, f.data_size, f.timestamp)
                      EXCEPT !.data_ptr = p]]

\* Record.load with the buffer at position p, just after rec_nonce
load(b, p, rec_nonce, keys) ==
    LET raw == ReadAt(b, p, RECORD_SIZE) IN
    IF ~NonceOk(rec_nonce) \/ Len(raw) # RECORD_SIZE
    THEN [ok |-> FALSE]
    ELSE LET f == unpack(decrypt(renew(keys, rec_nonce), raw)) IN
         [ok |-> TRUE,
          rec |-> [Record(rec_nonce, f.nonce, f.name, f.data_size, f.timestamp)
                      EXCEPT !.data_ptr = p + RECORD_SIZE]]

Record_delete(rec, t) == [rec EXCEPT !.name = <<>>, !.timestamp = PackInt(int(t))]

(***************************************************************************)
(* vault.py: Vault, the pure parts                                         *)
(***************************************************************************)
RECURSIVE data_size_from(_, _)
data_size_from(recs, i) ==
    IF i > Len(recs) THEN 0
    ELSE Plus(IntOf(recs[i].data_size), data_size_from(recs, i + 1))
data_size(recs) == data_size_from(recs, 1)

count(recs) == Len(recs)

\* a faulty buffer_end that counts the headers only
buffer_end_headers(recs) == count(recs) * FULL_SIZE

buffer_end(recs) == Plus(count(recs) * FULL_SIZE, data_size(recs))

\* Vault.__load_record_table from position p with recs loaded so far; far
\* tells whether a seek went far beyond the end (to an offset of Huge)
RECURSIVE load_record_table(_, _, _, _, _)
load_record_table(b, keys, p, recs, far) ==
    LET rec_nonce == ReadAt(b, p, NONCE_LEN) IN
    IF rec_nonce = <<>>
    THEN [ok |-> TRUE, records |-> recs, pos |-> p, far |-> far]
    ELSE LET l == load(b, p + Len(rec_nonce), rec_nonce, keys) IN
         IF ~l.ok THEN [ok |-> FALSE, records |-> recs, pos |-> p, far |-> far]
         ELSE LET target == Plus(l.rec.data_ptr, IntOf(l.rec.data_size)) IN
              IF SeekOverflows(l.rec.data_ptr, l.rec.data_size)
              THEN [ok |-> FALSE, records |-> recs, pos |-> l.rec.data_ptr,
                    far |-> far]
              ELSE load_record_table(b, keys, target, Append(recs, l.rec),
                                     far \/ target = Huge)

\* Vault.read_item: the bytes returned
read_item(b, keys, rec) ==
    decrypt(renew(keys, rec.nonce), ReadAt(b, rec.data_ptr, IntOf(rec.data_size)))

\* the outcomes of Vault.read_item on an open vault: buffer.read(data_size)
\* returns the bytes there are; for a size of Huge a file object may fail to
\* allocate and raise MemoryError, where io.BytesIO returns
read_item_outcomes(b, keys, rec) ==
    {[ok |-> TRUE, data |-> read_item(b, keys, rec)]}
    \cup (IF IntOf(rec.data_size) = Huge THEN {[ok |-> FALSE, data |-> <<>>]} ELSE {})

\* the chunks iter(lambda: buffer.read(chunk_size), b'') yields for a source
\* holding data: it stops at the first empty read
RECURSIVE iter_read(_, _)
iter_read(data, chunk_size) ==
    LET n == IF chunk_size < 0 THEN Len(data) ELSE Min(chunk_size, Len(data)) IN
    IF n = 0 THEN <<>>
    ELSE <<SubSeq(data, 1, n)>> \o iter_read(SubSeq(data, n + 1, Len(data)), chunk_size)


\* name.decode('utf-8') succeeds
RECURSIVE Utf8Valid(_, _)
Utf8Valid(b, i) ==
    LET n == Len(b) - i + 1
        c(j) == b[i + j]
        cont(j) == c(j) >= 128 /\ c(j) <= 191
    IN
    IF n <= 0 THEN TRUE
    ELSE IF c(0) < 128 THEN Utf8Valid(b, i + 1)
    ELSE IF c(0) >= 194 /\ c(0) <= 223
         THEN n >= 2 /\ cont(1) /\ Utf8Valid(b, i + 2)
    ELSE IF c(0) >= 224 /\ c(0) <= 239
         THEN /\ n >= 3 /\ cont(1) /\ cont(2)
              /\ (c(0) = 224 => c(1) >= 160)
              /\ (c(0) = 237 => c(1) <= 159)
              /\ Utf8Valid(b, i + 3)
    ELSE IF c(0) >= 240 /\ c(0) <= 244
         THEN /\ n >= 4 /\ cont(1) /\ cont(2) /\ cont(3)
              /\ (c(0) = 240 => c(1) >= 144)
              /\ (c(0) = 244 => c(1) <= 143)
              /\ Utf8Valid(b, i + 4)
    ELSE FALSE

\* a <= b for two 64-bit patterns of equal sign, most significant digit first
RECURSIVE DigitsLeq(_, _, _)
DigitsLeq(a, b, i) ==
    IF i = 0 THEN TRUE
    ELSE IF a[i] # b[i] THEN a[i] < b[i]
    ELSE DigitsLeq(a, b, i - 1)

\* datetime.fromtimestamp accepts the years 1 to 9999:
\* -62135596800 <= timestamp <= 253402300799
TimestampOk(d) ==
    IF d[INT_LEN] < 128
    THEN DigitsLeq(d, <<127, 65, 244, 255, 58, 0, 0, 0>>, INT_LEN)
    ELSE DigitsLeq(<<0, 9, 110, 136, 241, 255, 255, 255>>, d, INT_LEN)

\* Vault.ls returns its summary: every name decodes, every timestamp formats
ls_ok(recs) ==
    \A k \in 1..Len(recs) :
        Utf8Valid(recs[k].name, 1) /\ TimestampOk(recs[k].timestamp)

(***************************************************************************)
(* Inputs                                                                  *)
(***************************************************************************)
PW == <<112, 119>>
PW2 == <<112, 119, 50>>
Passwords == {PW, PW2}

NonceA == [i \in 1..NONCE_LEN |-> 16 + i]
NonceB == [i \in 1..NONCE_LEN |-> 200 - 3 * i]
\* os.urandom(12) twice in a store: the payload nonce and the record nonce
Urandom == {<<NonceA, NonceB>>, <<NonceB, NonceA>>}

\* time.time() in thousandths of a second: at the stores and, later, at deletes
StoreTimes == {1700}
DeleteTimes == {2900}

Bytes(v) == [isStr |-> FALSE, val |-> v]
Str(v) == [isStr |-> TRUE, val |-> v]
NameA == Bytes(<<97>>)
NameNul == Bytes(<<0, 97, 0, 98>>)
NameLong == Str([i \in 1..33 |-> 233])
Name64 == Bytes([i \in 1..NAME_LEN |-> 98])
AllNames == {NameA, NameNul, NameLong, Name64}

Payloads == {<<>>, <<65, 66, 67>>}

(***************************************************************************)
(* State                                                                   *)
(***************************************************************************)
VARIABLES
    exists,     \* the vault file exists
    buffer,     \* the bytes of the file
    pos,        \* the position of the buffer handle
    vault,      \* the Vault object: "none", "open" or "closed"
    keys,       \* the keys of its CipherGenerator, <<>> for None
    records,    \* Vault.records
    gen,        \* a read_chunks generator
    gen2,       \* a second read_chunks generator of the same Vault
    last,       \* the last call: [op, ok, arg, index]
    plain,      \* history: per record, the plaintext a store of this Vault wrote
    committed,  \* history: the completed stores into the file, in order
    flags,      \* history: passwords, failed / foreign stores, sessions
    atClose     \* history: the record list and payloads at the last close

vars == <<exists, buffer, pos, vault, keys, records, gen, gen2, last,
          plain, committed, flags, atClose>>

\* no generator; moved is history: another call moved the buffer's position
\* between two chunks of the generator
NoGen == [st |-> "none", index |-> 0, chunk_size |-> 0, k |-> 0, i |-> 0,
          size |-> 0, ciphers |-> <<>>, out |-> <<>>, moved |-> FALSE]

\* a call and its outcome; ret holds the bytes a read returned or wrote out
Call(op, ok, arg, index) ==
    [op |-> op, ok |-> ok, arg |-> arg, index |-> index, ret |-> <<>>]

\* self.records[index]: the position in records, 0 for IndexError; a
\* negative index counts from the end
list_index(recs, index) ==
    IF index \in 0..(Len(recs) - 1) THEN index + 1
    ELSE IF index \in (-Len(recs))..(-1) THEN Len(recs) + index + 1
    ELSE 0

Init ==
    /\ exists = FALSE
    /\ buffer = <<>>
    /\ pos = 0
    /\ vault = "none"
    /\ keys = <<>>
    /\ records = <<>>
    /\ gen = NoGen
    /\ gen2 = NoGen
    /\ last = Call("init", TRUE, <<>>, -1)
    /\ plain = <<>>
    /\ committed = <<>>
    /\ flags = [pwd |-> <<>>, filePw |-> <<>>, failed |-> FALSE,
                foreign |-> FALSE, sessions |-> 0]
    /\ atClose = [valid |-> FALSE, pwd |-> <<>>, recs |-> <<>>]

\* what a caller can observe of a record list: the fields and the payloads
Snapshot(b, ks, recs) ==
    [k \in 1..Len(recs) |->
        [name |-> recs[k].name, data_size |-> recs[k].data_size,
         timestamp |-> recs[k].timestamp, payload |-> read_item(b, ks, recs[k])]]

(***************************************************************************)
(* Construction and close                                                  *)
(***************************************************************************)
\* a faulty new that opens the path with 'wb+' without looking for a file
New_overwrite(pw) ==
    /\ vault # "open"
    /\ flags.sessions < MaxSessions
    /\ exists' = TRUE
    /\ buffer' = <<>>
    /\ pos' = 0
    /\ vault' = "open"
    /\ keys' = gen_keys(pw)
    /\ records' = <<>>
    /\ gen' = NoGen
    /\ gen2' = NoGen
    /\ last' = Call("new", TRUE, pw, -1)
    /\ plain' = <<>>
    /\ committed' = <<>>
    /\ flags' = [pwd |-> pw, filePw |-> pw, failed |-> FALSE,
                 foreign |-> FALSE, sessions |-> flags.sessions + 1]
    /\ UNCHANGED atClose

\* Vault.new(fp, password)
New(pw) ==
    /\ vault # "open"
    /\ flags.sessions < MaxSessions
    /\ IF exists
       THEN /\ last' = Call("new", FALSE, pw, -1)
            /\ UNCHANGED <<exists, buffer, pos, vault, keys, records, gen, gen2,
                           plain, committed, flags, atClose>>
       ELSE /\ exists' = TRUE
            /\ buffer' = <<>>
            /\ pos' = 0
            /\ vault' = "open"
            /\ keys' = gen_keys(pw)
            /\ records' = <<>>
            /\ gen' = NoGen
            /\ gen2' = NoGen
            /\ last' = Call("new", TRUE, pw, -1)
            /\ plain' = <<>>
            /\ committed' = <<>>
            /\ flags' = [pwd |-> pw, filePw |-> pw, failed |-> FALSE,
                         foreign |-> FALSE, sessions |-> flags.sessions + 1]
            /\ UNCHANGED atClose

\* a faulty from_file that opens the path with 'wb+', which truncates it
Open_wb(pw) ==
    /\ vault # "open"
    /\ flags.sessions < MaxSessions
    /\ exists
    /\ buffer' = <<>>
    /\ vault' = "open"
    /\ keys' = gen_keys(pw)
    /\ records' = <<>>
    /\ pos' = 0
    /\ gen' = NoGen
    /\ gen2' = NoGen
    /\ last' = Call("open", TRUE, pw, -1)
    /\ plain' = <<>>
    /\ flags' = [flags EXCEPT !.pwd = pw, !.sessions = @ + 1]
    /\ UNCHANGED <<exists, committed, atClose>>

\* Vault.from_file(fp, password): from_buffer and __load_record_table.
\* A seek far beyond the end is taken by some buffers (io.BytesIO, files of
\* some file systems) and raises OSError on others: both are explored.
Open(pw) ==
    /\ vault # "open"
    /\ flags.sessions < MaxSessions
    /\ LET t == load_record_table(buffer, gen_keys(pw), 0, <<>>, FALSE) IN
       \/ /\ exists /\ t.ok
          /\ vault' = "open"
          /\ keys' = gen_keys(pw)
          /\ records' = t.records
          /\ pos' = t.pos
          /\ gen' = NoGen
          /\ gen2' = NoGen
          /\ last' = Call("open", TRUE, pw, -1)
          /\ plain' = [k \in 1..Len(t.records) |-> [known |-> FALSE, data |-> <<>>]]
          /\ flags' = [flags EXCEPT !.pwd = pw, !.sessions = @ + 1]
          /\ UNCHANGED <<exists, buffer, committed, atClose>>
       \/ /\ ~exists \/ ~t.ok \/ t.far
          /\ last' = Call("open", FALSE, pw, -1)
          /\ UNCHANGED <<exists, buffer, pos, vault, keys, records, gen, gen2,
                         plain, committed, flags, atClose>>

\* Vault.from_buffer up to the seek(0) of __load_record_table: the Vault
\* object is made with an empty record list; vault is "loading" while the
\* loop of __load_record_table runs
BeginLoad(pw) ==
    /\ vault \in {"none", "closed"}
    /\ exists
    /\ flags.sessions < MaxSessions
    /\ vault' = "loading"
    /\ keys' = gen_keys(pw)
    /\ records' = <<>>
    /\ pos' = 0
    /\ gen' = NoGen
    /\ gen2' = NoGen
    /\ plain' = <<>>
    /\ flags' = [flags EXCEPT !.pwd = pw, !.sessions = @ + 1]
    /\ UNCHANGED <<exists, buffer, last, committed, atClose>>

\* an exception leaves __load_record_table and from_buffer with the buffer
\* at position p: no Vault is returned
LoadRaises(p) ==
    /\ vault' = "closed"
    /\ keys' = <<>>
    /\ records' = <<>>
    /\ pos' = p
    /\ last' = Call("open", FALSE, flags.pwd, -1)
    /\ UNCHANGED <<exists, buffer, gen, gen2, plain, committed, flags, atClose>>

\* a faulty iteration that seeks to data_size, leaving data_ptr out
LoadStep_seek_size ==
    /\ vault = "loading"
    /\ LET rec_nonce == ReadAt(buffer, pos, NONCE_LEN) IN
       IF rec_nonce = <<>>
       THEN /\ vault' = "open"
            /\ last' = Call("open", TRUE, flags.pwd, -1)
            /\ plain' = [k \in 1..Len(records) |-> [known |-> FALSE, data |-> <<>>]]
            /\ UNCHANGED <<exists, buffer, pos, keys, records, gen, gen2,
                           committed, flags, atClose>>
       ELSE LET l == load(buffer, pos + Len(rec_nonce), rec_nonce, keys) IN
            IF ~l.ok THEN LoadRaises(Len(buffer))
            ELSE /\ records' = Append(records, l.rec)
                 /\ pos' = IntOf(l.rec.data_size)
                 /\ UNCHANGED <<exists, buffer, vault, keys, gen, gen2, last,
                                plain, committed, flags, atClose>>

\* one iteration of the loop of __load_record_table: read(12), Record.load,
\* seek, append; the empty read ends the loop and from_buffer returns. A
\* seek far beyond the end is taken by some buffers and raises on others.
LoadStep ==
    /\ vault = "loading"
    /\ LET rec_nonce == ReadAt(buffer, pos, NONCE_LEN) IN
       IF rec_nonce = <<>>
       THEN /\ vault' = "open"
            /\ last' = Call("open", TRUE, flags.pwd, -1)
            /\ plain' = [k \in 1..Len(records) |-> [known |-> FALSE, data |-> <<>>]]
            /\ UNCHANGED <<exists, buffer, pos, keys, records, gen, gen2,
                           committed, flags, atClose>>
       ELSE LET l == load(buffer, pos + Len(rec_nonce), rec_nonce, keys) IN
            IF ~l.ok
            THEN \* ValueError for a short nonce, struct.error for a short header
                 LoadRaises(Len(buffer))
            ELSE IF SeekOverflows(l.rec.data_ptr, l.rec.data_size)
            THEN LoadRaises(l.rec.data_ptr)
            ELSE LET target == Plus(l.rec.data_ptr, IntOf(l.rec.data_size)) IN
                 \/ /\ records' = Append(records, l.rec)
                    /\ pos' = target
                    /\ UNCHANGED <<exists, buffer, vault, keys, gen, gen2, last,
                                   plain, committed, flags, atClose>>
                 \/ /\ target = Huge
                    /\ LoadRaises(l.rec.data_ptr)

\* the file is cut to n bytes by something other than a Vault
CutPoints == {5, 60, 106, 150}
Truncate(n) ==
    /\ exists
    /\ vault = "closed"
    /\ n < Len(buffer)
    /\ buffer' = SubSeq(buffer, 1, n)
    /\ last' = Call("truncate", TRUE, <<>>, n)
    /\ flags' = [flags EXCEPT !.foreign = TRUE]
    /\ UNCHANGED <<exists, pos, vault, keys, records, gen, gen2, plain,
                   committed, atClose>>

\* Vault.close
Close ==
    /\ vault # "none"
    /\ vault' = "closed"
    /\ keys' = <<>>
    /\ last' = Call("close", TRUE, <<>>, -1)
    /\ atClose' = IF vault = "open"
                  THEN [valid |-> TRUE, pwd |-> flags.pwd,
                        recs |-> Snapshot(buffer, keys, records)]
                  ELSE atClose
    /\ UNCHANGED <<exists, buffer, pos, records, gen, gen2, plain, committed, flags>>

(***************************************************************************)
(* Storage                                                                 *)
(***************************************************************************)
\* the loop of store_chunks: each chunk is encrypted by the one cipher and
\* written at the buffer's position
\* a faulty loop that encrypts every chunk with the cipher at position 0
RECURSIVE write_chunks_restart(_, _, _, _, _)
write_chunks_restart(b, p, ciphers, chunks, bytes_written) ==
    IF chunks = <<>>
    THEN [buffer |-> b, pos |-> p, bytes_written |-> bytes_written]
    ELSE LET chunk == Head(chunks) IN
         write_chunks_restart(WriteAt(b, p, encrypt(ciphers, chunk)),
                              p + Len(chunk),
                              ciphers,
                              Tail(chunks),
                              bytes_written + Len(chunk))

RECURSIVE write_chunks(_, _, _, _, _)
write_chunks(b, p, ciphers, chunks, bytes_written) ==
    IF chunks = <<>>
    THEN [buffer |-> b, pos |-> p, bytes_written |-> bytes_written]
    ELSE LET chunk == Head(chunks) IN
         write_chunks(WriteAt(b, p, encrypt(ciphers, chunk)),
                      p + Len(chunk),
                      Advance(ciphers, Len(chunk)),
                      Tail(chunks),
                      bytes_written + Len(chunk))

\* a faulty store_chunks that takes record_start from the length of the buffer
store_chunks_from_length(op, chunks, raises, name, nonce, rec_nonce, t) ==
    /\ vault # "none"
    /\ IF vault = "closed"
       THEN \* buffer.seek raises ValueError on the closed buffer
            /\ last' = Call(op, FALSE, NameBytes(name), -1)
            /\ UNCHANGED <<exists, buffer, pos, vault, keys, records, gen, gen2,
                           plain, committed, flags, atClose>>
       ELSE LET record_start == Len(buffer)
                w == write_chunks(buffer, Plus(record_start, FULL_SIZE),
                                  renew(keys, nonce), chunks, 0)
                rec == Record(rec_nonce, nonce, NameBytes(name),
                              PackInt(w.bytes_written), PackInt(int(t)))
            IN
            /\ Plus(record_start, FULL_SIZE) + Len(Concat(chunks)) <= MaxBuffer
            /\ IF raises
               THEN /\ buffer' = w.buffer
                    /\ pos' = w.pos
                    /\ last' = Call(op, FALSE, NameBytes(name), -1)
                    /\ flags' = [flags EXCEPT !.failed = TRUE]
                    /\ UNCHANGED <<records, plain, committed>>
               ELSE /\ buffer' = WriteAt(w.buffer, record_start, dump(rec, keys))
                    /\ pos' = record_start + FULL_SIZE
                    /\ records' = Append(records,
                                         [rec EXCEPT !.data_ptr = record_start + FULL_SIZE])
                    /\ last' = [Call(op, TRUE, NameBytes(name), -1)
                                   EXCEPT !.ret = IF op = "copy" THEN Concat(chunks)
                                                  ELSE <<>>]
                    /\ plain' = Append(plain, [known |-> TRUE, data |-> Concat(chunks)])
                    /\ committed' = Append(committed,
                                           [name |-> NameBytes(name),
                                            data |-> Concat(chunks),
                                            timestamp |-> PackInt(int(t)),
                                            session |-> flags.sessions])
                    /\ flags' = [flags EXCEPT !.foreign = @ \/ flags.pwd # flags.filePw]
            /\ UNCHANGED <<exists, vault, keys, gen, gen2, atClose>>

\* Vault.store_chunks(chunks, name), called as op; with raises, iterating
\* chunks raises after the chunks given were yielded
store_chunks(op, chunks, raises, name, nonce, rec_nonce, t) ==
    /\ vault # "none"
    /\ IF vault = "closed"
       THEN \* buffer.seek raises ValueError on the closed buffer
            /\ last' = Call(op, FALSE, NameBytes(name), -1)
            /\ UNCHANGED <<exists, buffer, pos, vault, keys, records, gen, gen2,
                           plain, committed, flags, atClose>>
       ELSE LET record_start == buffer_end(records)
                w == write_chunks(buffer, Plus(record_start, FULL_SIZE),
                                  renew(keys, nonce), chunks, 0)
                rec == Record(rec_nonce, nonce, NameBytes(name),
                              PackInt(w.bytes_written), PackInt(int(t)))
            IN
            /\ Plus(record_start, FULL_SIZE) + Len(Concat(chunks)) <= MaxBuffer
            /\ IF raises
               THEN /\ buffer' = w.buffer
                    /\ pos' = w.pos
                    /\ last' = Call(op, FALSE, NameBytes(name), -1)
                    /\ flags' = [flags EXCEPT !.failed = TRUE]
                    /\ UNCHANGED <<records, plain, committed>>
               ELSE /\ buffer' = WriteAt(w.buffer, record_start, dump(rec, keys))
                    /\ pos' = record_start + FULL_SIZE
                    /\ records' = Append(records,
                                         [rec EXCEPT !.data_ptr = record_start + FULL_SIZE])
                    /\ last' = [Call(op, TRUE, NameBytes(name), -1)
                                   EXCEPT !.ret = IF op = "copy" THEN Concat(chunks)
                                                  ELSE <<>>]
                    /\ plain' = Append(plain, [known |-> TRUE, data |-> Concat(chunks)])
                    /\ committed' = Append(committed,
                                           [name |-> NameBytes(name),
                                            data |-> Concat(chunks),
                                            timestamp |-> PackInt(int(t)),
                                            session |-> flags.sessions])
                    /\ flags' = [flags EXCEPT !.foreign = @ \/ flags.pwd # flags.filePw]
            /\ UNCHANGED <<exists, vault, keys, gen, gen2, atClose>>

\* Vault.store_item(data, name)
StoreItem(data, name, nonce, rec_nonce, t) ==
    store_chunks("store_item", <<data>>, FALSE, name, nonce, rec_nonce, t)

\* Vault.store_from_buffer(buffer, name, chunk_size) from a source holding data
StoreFromBuffer(data, chunk_size, name, nonce, rec_nonce, t) ==
    store_chunks("store_from_buffer", iter_read(data, chunk_size), FALSE,
                 name, nonce, rec_nonce, t)

\* Vault.store_chunks(chunks, name) with a list of chunks
StoreChunks(chunks, name, nonce, rec_nonce, t) ==
    store_chunks("store_chunks", chunks, FALSE, name, nonce, rec_nonce, t)

\* Vault.store_chunks(chunks, name) with chunks that raise part-way
StoreChunksRaise(chunks, name, nonce) ==
    store_chunks("store_chunks", chunks, TRUE, name, nonce, nonce, 0)

\* Vault.store_file(fp) for a file holding data; name is the last part of fp
StoreFile(data, name, nonce, rec_nonce, t) ==
    store_chunks("store_file", iter_read(data, DEFAULT_CHUNK_SIZE), FALSE,
                 name, nonce, rec_nonce, t)

\* the name store_chunks gives a record when the caller gives none
UnnamedData == Str(<<85, 110, 110, 97, 109, 101, 100, 32, 68, 97, 116, 97>>)

\* Vault.copy(other_vault, index) from a vault on another buffer whose
\* read_chunks(index) yields data in chunks of DEFAULT_CHUNK_SIZE; ret holds
\* the bytes the source yielded
CopyOther(data, nonce, rec_nonce, t) ==
    store_chunks("copy", iter_read(data, DEFAULT_CHUNK_SIZE), FALSE,
                 UnnamedData, nonce, rec_nonce, t)

\* the loop of store_chunks over self.read_chunks(index): the generator and
\* the store share one buffer, so each chunk is written where the
\* generator's read left the position
RECURSIVE copy_chunks(_, _, _, _, _, _, _, _, _)
copy_chunks(b, rec, rciphers, wciphers, i, size, p, bytes_written, chunks) ==
    IF i >= size
    THEN [buffer |-> b, pos |-> p, bytes_written |-> bytes_written, chunks |-> chunks]
    ELSE LET at == Plus(rec.data_ptr, i)
             raw == ReadAt(b, at, Min(DEFAULT_CHUNK_SIZE, size - i))
             chunk == decrypt(rciphers, raw)
         IN copy_chunks(WriteAt(b, at + Len(raw), encrypt(wciphers, chunk)),
                        rec,
                        Advance(rciphers, Len(raw)),
                        Advance(wciphers, Len(chunk)),
                        i + DEFAULT_CHUNK_SIZE,
                        size,
                        at + Len(raw) + Len(chunk),
                        bytes_written + Len(chunk),
                        Append(chunks, chunk))

\* Vault.copy(self, index): the source vault is the destination; ret holds
\* what read_item(index) returned before the call
Copy(index, nonce, rec_nonce, t) ==
    /\ vault # "none"
    /\ IF vault = "closed"
       THEN \* buffer.seek raises ValueError on the closed buffer
            /\ last' = Call("copy", FALSE, NameBytes(UnnamedData), index)
            /\ UNCHANGED <<exists, buffer, pos, vault, keys, records, gen, gen2,
                           plain, committed, flags, atClose>>
       ELSE LET record_start == buffer_end(records)
                k == list_index(records, index)
            IN
            IF k = 0
            THEN \* IndexError at the first next of the generator, after the seek
                 /\ pos' = Plus(record_start, FULL_SIZE)
                 /\ last' = Call("copy", FALSE, NameBytes(UnnamedData), index)
                 /\ UNCHANGED <<exists, buffer, vault, keys, records, gen, gen2,
                                plain, committed, flags, atClose>>
            ELSE LET w == copy_chunks(buffer, records[k],
                                      renew(keys, records[k].nonce),
                                      renew(keys, nonce),
                                      0, IntOf(records[k].data_size),
                                      Plus(record_start, FULL_SIZE), 0, <<>>)
                     rec == Record(rec_nonce, nonce, NameBytes(UnnamedData),
                                   PackInt(w.bytes_written), PackInt(int(t)))
                 IN
                 /\ Plus(record_start, FULL_SIZE) + IntOf(records[k].data_size)
                        <= MaxCopyBuffer
                 /\ buffer' = WriteAt(w.buffer, record_start, dump(rec, keys))
                 /\ pos' = record_start + FULL_SIZE
                 /\ records' = Append(records,
                                      [rec EXCEPT !.data_ptr = record_start + FULL_SIZE])
                 /\ last' = [Call("copy", TRUE, NameBytes(UnnamedData), index)
                                EXCEPT !.ret = read_item(buffer, keys, records[k])]
                 /\ plain' = Append(plain, [known |-> TRUE, data |-> Concat(w.chunks)])
                 /\ committed' = Append(committed,
                                        [name |-> NameBytes(UnnamedData),
                                         data |-> Concat(w.chunks),
                                         timestamp |-> PackInt(int(t)),
                                         session |-> flags.sessions])
                 /\ flags' = [flags EXCEPT !.foreign = @ \/ flags.pwd # flags.filePw]
                 /\ UNCHANGED <<exists, vault, keys, gen, gen2, atClose>>

\* Record.delete on records[index]
Delete(index, t) ==
    /\ vault # "none"
    /\ index \in 0..(Len(records) - 1)
    /\ records' = [records EXCEPT ![index + 1] = Record_delete(@, t)]
    /\ last' = Call("delete", TRUE, <<>>, index)
    /\ UNCHANGED <<exists, buffer, pos, vault, keys, gen, gen2, plain, committed,
                   flags, atClose>>

(***************************************************************************)
(* Retrieval                                                               *)
(***************************************************************************)
\* Vault.ls
Ls ==
    /\ vault # "none"
    /\ last' = Call("ls", ls_ok(records), <<>>, -1)
    /\ UNCHANGED <<exists, buffer, pos, vault, keys, records, gen, gen2,
                   plain, committed, flags, atClose>>

\* the position after read_item on rec
AfterRead(b, rec) ==
    rec.data_ptr + Len(ReadAt(b, rec.data_ptr, IntOf(rec.data_size)))

\* Vault.read_item(index)
ReadItem(index) ==
    /\ vault # "none"
    /\ LET k == list_index(records, index) IN
       IF k = 0 \/ vault = "closed"
       THEN \* IndexError, or buffer.seek raises ValueError on the closed buffer
            /\ last' = Call("read_item", FALSE, <<>>, index)
            /\ UNCHANGED pos
       ELSE \E o \in read_item_outcomes(buffer, keys, records[k]) :
                /\ last' = [Call("read_item", o.ok, <<>>, index) EXCEPT !.ret = o.data]
                /\ pos' = IF o.ok THEN AfterRead(buffer, records[k])
                           ELSE records[k].data_ptr
    /\ UNCHANGED <<exists, buffer, vault, keys, records, gen, gen2,
                   plain, committed, flags, atClose>>

\* Vault.read_all
ReadAll ==
    /\ vault # "none"
    /\ IF vault = "closed" /\ records # <<>>
       THEN /\ last' = Call("read_all", FALSE, <<>>, -1)
            /\ UNCHANGED pos
       ELSE IF \E k \in 1..Len(records) : IntOf(records[k].data_size) = Huge
       THEN \* one of the reads may raise MemoryError
            \E ok \in BOOLEAN :
                /\ last' = Call("read_all", ok, <<>>, -1)
                /\ pos' = IF ok THEN AfterRead(buffer, records[Len(records)])
                           ELSE records[1].data_ptr
       ELSE /\ last' = Call("read_all", TRUE, <<>>, -1)
            /\ pos' = IF records = <<>> THEN pos
                      ELSE AfterRead(buffer, records[Len(records)])
    /\ UNCHANGED <<exists, buffer, vault, keys, records, gen, gen2,
                   plain, committed, flags, atClose>>

\* Vault.read_chunks(index, chunk_size): the call only makes the generator
NewGen(index, chunk_size) ==
    [NoGen EXCEPT !.st = "created", !.index = index, !.chunk_size = chunk_size]

ReadChunks(index, chunk_size) ==
    /\ vault # "none"
    /\ gen' = NewGen(index, chunk_size)
    /\ last' = Call("read_chunks_call", TRUE, <<>>, index)
    /\ UNCHANGED <<exists, buffer, pos, vault, keys, records, gen2,
                   plain, committed, flags, atClose>>

\* the same call once more, for a second generator
ReadChunks2(index, chunk_size) ==
    /\ vault # "none"
    /\ gen2' = NewGen(index, chunk_size)
    /\ last' = Call("read_chunks_call", TRUE, <<>>, index)
    /\ UNCHANGED <<exists, buffer, pos, vault, keys, records, gen,
                   plain, committed, flags, atClose>>

\* where the generator g over rec left the buffer at its last yield
LeftAt(g, rec) ==
    Plus(rec.data_ptr, g.i - g.chunk_size) + Len(g.out[Len(g.out)])

\* a faulty body that seeks to data_ptr once and then reads on from where
\* the buffer is
gen_next_no_seek(g, p) ==
    LET fresh == g.st = "created"
        k == IF fresh THEN list_index(records, g.index) ELSE g.k
        raised == [gen |-> [g EXCEPT !.st = "error"], ok |-> FALSE, pos |-> p,
                   chunk |-> <<>>]
    IN
    IF k = 0 THEN raised                        \* IndexError
    ELSE IF fresh /\ keys = <<>> THEN raised    \* self.__cipher is None
    ELSE IF g.chunk_size = 0 THEN raised        \* range() with step 0
    ELSE LET rec == records[k]
             size == IF fresh THEN IntOf(rec.data_size) ELSE g.size
             ciphers == IF fresh THEN renew(keys, rec.nonce) ELSE g.ciphers
             at == IF fresh THEN rec.data_ptr ELSE p
             raw == ReadAt(buffer, at,
                           Min(g.chunk_size, size - g.i))
         IN
         IF g.chunk_size < 0 \/ g.i >= size
         THEN \* the range is exhausted, or empty for a negative step
              [gen |-> [g EXCEPT !.st = "done", !.k = k, !.size = size,
                                 !.ciphers = <<>>],
               ok |-> TRUE, pos |-> p, chunk |-> <<>>]
         ELSE IF vault = "closed" THEN raised
         ELSE [gen |-> [g EXCEPT !.st = "running", !.k = k, !.size = size,
                                 !.i = @ + g.chunk_size,
                                 !.ciphers = Advance(ciphers, Len(raw)),
                                 !.out = Append(@, decrypt(ciphers, raw)),
                                 !.moved = @ \/ (~fresh /\ p # LeftAt(g, rec))],
               ok |-> TRUE,
               pos |-> at + Len(raw),
               chunk |-> decrypt(ciphers, raw)]

\* next() on generator g with the buffer at position p: the body of
\* read_chunks up to its next yield; the generator after it, whether it
\* yielded or stopped (ok) or raised, and the position of the buffer
gen_next(g, p) ==
    LET fresh == g.st = "created"
        k == IF fresh THEN list_index(records, g.index) ELSE g.k
        raised == [gen |-> [g EXCEPT !.st = "error"], ok |-> FALSE, pos |-> p,
                   chunk |-> <<>>]
    IN
    IF k = 0 THEN raised                        \* IndexError
    ELSE IF fresh /\ keys = <<>> THEN raised    \* self.__cipher is None
    ELSE IF g.chunk_size = 0 THEN raised        \* range() with step 0
    ELSE LET rec == records[k]
             size == IF fresh THEN IntOf(rec.data_size) ELSE g.size
             ciphers == IF fresh THEN renew(keys, rec.nonce) ELSE g.ciphers
             raw == ReadAt(buffer, Plus(rec.data_ptr, g.i),
                           Min(g.chunk_size, size - g.i))
         IN
         IF g.chunk_size < 0 \/ g.i >= size
         THEN \* the range is exhausted, or empty for a negative step
              [gen |-> [g EXCEPT !.st = "done", !.k = k, !.size = size,
                                 !.ciphers = <<>>],
               ok |-> TRUE, pos |-> p, chunk |-> <<>>]
         ELSE IF vault = "closed" THEN raised
         ELSE [gen |-> [g EXCEPT !.st = "running", !.k = k, !.size = size,
                                 !.i = @ + g.chunk_size,
                                 !.ciphers = Advance(ciphers, Len(raw)),
                                 !.out = Append(@, decrypt(ciphers, raw)),
                                 !.moved = @ \/ (~fresh /\ p # LeftAt(g, rec))],
               ok |-> TRUE,
               pos |-> Plus(rec.data_ptr, g.i) + Len(raw),
               chunk |-> decrypt(ciphers, raw)]

\* next() on the generator
GenNext ==
    /\ gen.st \in {"created", "running"}
    /\ Len(gen.out) < MaxChunks
    /\ LET r == gen_next(gen, pos) IN
       /\ gen' = r.gen
       /\ last' = [Call("read_chunks", r.ok, <<>>, gen.index) EXCEPT !.ret = r.chunk]
       /\ pos' = r.pos
    /\ UNCHANGED <<exists, buffer, vault, keys, records, gen2,
                   plain, committed, flags, atClose>>

\* next() on the second generator
GenNext2 ==
    /\ gen2.st \in {"created", "running"}
    /\ Len(gen2.out) < MaxChunks
    /\ LET r == gen_next(gen2, pos) IN
       /\ gen2' = r.gen
       /\ last' = [Call("read_chunks", r.ok, <<>>, gen2.index) EXCEPT !.ret = r.chunk]
       /\ pos' = r.pos
    /\ UNCHANGED <<exists, buffer, vault, keys, records, gen,
                   plain, committed, flags, atClose>>

\* the chunks a read_chunks generator over rec yields when it is run to its
\* end from offset i with the buffer at position p, and the final position
RECURSIVE read_chunks_from(_, _, _, _, _, _, _)
read_chunks_from(b, rec, ciphers, i, size, chunk_size, p) ==
    IF i >= size THEN [out |-> <<>>, pos |-> p]
    ELSE LET raw == ReadAt(b, Plus(rec.data_ptr, i), Min(chunk_size, size - i))
             rest == read_chunks_from(b, rec, Advance(ciphers, Len(raw)),
                                      i + chunk_size, size, chunk_size,
                                      Plus(rec.data_ptr, i) + Len(raw))
         IN [out |-> <<decrypt(ciphers, raw)>> \o rest.out, pos |-> rest.pos]

\* Vault.export_item_to_file(index, fp): ret is what was written to fp
ExportItemToFile(index) ==
    /\ vault # "none"
    /\ LET k == list_index(records, index) IN
       IF k = 0 \/ vault = "closed"
       THEN \* IndexError before fp is opened, or self.__cipher is None
            /\ last' = Call("export_item_to_file", FALSE, <<>>, index)
            /\ UNCHANGED pos
       ELSE LET rec == records[k]
                r == read_chunks_from(buffer, rec, renew(keys, rec.nonce), 0,
                                      IntOf(rec.data_size), DEFAULT_CHUNK_SIZE, pos)
            IN
            /\ last' = [Call("export_item_to_file", TRUE, <<>>, index)
                           EXCEPT !.ret = Concat(r.out)]
            /\ pos' = r.pos
    /\ UNCHANGED <<exists, buffer, vault, keys, records, gen, gen2,
                   plain, committed, flags, atClose>>

(***************************************************************************)
(* Specifications                                                          *)
(***************************************************************************)
\* the life of a vault file: sessions, stores and stores that fail
Next ==
    \/ New(PW)
    \/ \E pw \in Passwords : Open(pw)
    \/ Close
    \/ \E data \in Payloads, t \in StoreTimes :
           StoreItem(data, NameA, NonceB, NonceA, t)
    \/ \E u \in Urandom, t \in StoreTimes :
           StoreFromBuffer(<<65, 66, 67>>, 2, NameA, u[1], u[2], t)
    \/ \E t \in StoreTimes :
           StoreChunks(<<<<65>>, <<>>, <<66, 67>>>>, NameA, NonceA, NonceB, t)
    \/ StoreChunksRaise(<<<<65, 66>>>>, NameA, NonceA)

Spec == Init /\ [][Next]_vars

\* one session and a reopen, over every kind of name
NextNames ==
    \/ New(PW)
    \/ Open(PW)
    \/ Close
    \/ \E name \in AllNames, t \in StoreTimes :
           StoreItem(<<65, 66, 67>>, name, NonceA, NonceB, t)
    \/ Ls

SpecNames == Init /\ [][NextNames]_vars

\* the calls on an open and on a closed vault, and tombstones
NextOps ==
    \/ New(PW)
    \/ Open(PW)
    \/ Close
    \/ \E t \in StoreTimes : StoreItem(<<65, 66, 67>>, NameA, NonceA, NonceB, t)
    \/ \E index \in 0..1, t \in DeleteTimes : Delete(index, t)
    \/ Ls
    \/ \E index \in 0..1 : ReadItem(index)
    \/ ReadAll

SpecOps == Init /\ [][NextOps]_vars

\* chunked reads of stored records and of the records a reopen loads
NextChunks ==
    \/ New(PW)
    \/ \E pw \in Passwords : flags.sessions = 1 /\ Open(pw)
    \/ Close
    \/ \E data \in Payloads, t \in StoreTimes :
           StoreItem(data, NameA, NonceB, NonceA, t)
    \/ \E index \in 0..1, chunk_size \in 1..2 : ReadChunks(index, chunk_size)
    \/ GenNext

SpecChunks == Init /\ [][NextChunks]_vars

\* calls with indices and chunk sizes in and out of range
Indices == {-1, 0, 1}
ChunkSizes == {-1, 0, 2}
NextArgs ==
    \/ New(PW)
    \/ Close
    \/ \E t \in StoreTimes : StoreItem(<<65, 66, 67>>, NameA, NonceA, NonceB, t)
    \/ \E chunk_size \in ChunkSizes, t \in StoreTimes :
           StoreFromBuffer(<<65, 66, 67>>, chunk_size, NameA, NonceA, NonceB, t)
    \/ \E index \in Indices : ReadItem(index)
    \/ \E index \in Indices : ExportItemToFile(index)
    \/ \E index \in Indices, chunk_size \in ChunkSizes : ReadChunks(index, chunk_size)
    \/ GenNext

SpecArgs == Init /\ [][NextArgs]_vars

\* sessions that store, and sessions that only read
NextReads ==
    \/ New(PW)
    \/ Open(PW)
    \/ Close
    \/ \E data \in {<<>>, <<65, 66, 67>>}, t \in StoreTimes :
           flags.sessions = 1 /\ StoreItem(data, NameA, NonceA, NonceB, t)
    \/ Ls
    \/ \E index \in 0..1 : ReadItem(index)
    \/ ReadAll
    \/ \E index \in 0..1 : ReadChunks(index, 2)
    \/ GenNext

SpecReads == Init /\ [][NextReads]_vars

\* stores from every kind of source, copies from another vault and from
\* the vault itself
NextCopy ==
    \/ New(PW)
    \/ Close
    \/ \E data \in Payloads, t \in StoreTimes :
           StoreItem(data, NameA, NonceA, NonceB, t)
    \/ \E t \in StoreTimes : StoreFile(<<65, 66, 67>>, NameA, NonceB, NonceA, t)
    \/ StoreChunksRaise(<<<<65, 66>>>>, NameA, NonceA)
    \/ \E data \in Payloads, t \in StoreTimes : CopyOther(data, NonceB, NonceA, t)
    \/ \E index \in 0..1, t \in StoreTimes : Copy(index, NonceB, NonceA, t)

SpecCopy == Init /\ [][NextCopy]_vars

\* two generators consumed lazily, with reads and stores between chunks
NextLazy ==
    \/ New(PW)
    \/ \E data \in {<<65, 66, 67>>, <<68, 69>>}, t \in StoreTimes :
           StoreItem(data, NameA, NonceA, NonceB, t)
    \/ \E index \in 0..1 : ReadItem(index)
    \/ ReadChunks(0, 2)
    \/ GenNext
    \/ \E index \in 0..1 : ReadChunks2(index, 1)
    \/ GenNext2

SpecLazy == Init /\ [][NextLazy]_vars

\* the record table scan, one loop iteration at a time, over files that
\* stores wrote, failed stores left and cuts shortened, under both passwords
NextScan ==
    \/ LoadStep
    \/ /\ vault # "loading"
       /\ \/ New(PW)
          \/ Close
          \/ \E data \in Payloads, t \in StoreTimes :
                 flags.sessions = 1 /\ StoreItem(data, NameA, NonceA, NonceB, t)
          \/ flags.sessions = 1 /\ StoreChunksRaise(<<<<65, 66>>>>, NameA, NonceA)
          \/ \E n \in CutPoints : ~flags.foreign /\ Truncate(n)
          \/ \E pw \in Passwords : BeginLoad(pw)

SpecScan == Init /\ [][NextScan]_vars

\* the loop keeps running: while a scan is under way, its next iteration is
\* eventually taken. The steps of SpecScan from a state with a scan under
\* way are the iterations, LoadStep, and each changes vault or pos.
ScanRuns ==
    /\ vault = "loading"
    /\ vault' \in {"loading", "open", "closed"}
    /\ pos' \in 0..Huge

SpecScanLive == SpecScan /\ WF_<<vault, pos>>(ScanRuns)

(***************************************************************************)
(* Properties                                                              *)
(***************************************************************************)
\* the history is clean: the open Vault holds the password the file was made
\* with, no store failed, and no store was made under another password
Clean == flags.pwd = flags.filePw /\ ~flags.failed /\ ~flags.foreign

\* C1: round trip. In an open vault, read_item(k) returns exactly the
\* plaintext that a completed store of this Vault object wrote as record k
\* (store_item, store_from_buffer, store_chunks with any split, empty
\* payloads included), and every completed store has its record; this holds
\* after every later store and after stores that failed.
C1_RoundTrip ==
    vault = "open" =>
        /\ Len(plain) = Len(records)
        /\ \A k \in 1..Len(records) :
               plain[k].known => read_item(buffer, keys, records[k]) = plain[k].data

\* two items stored by this Vault, the first non-empty and written in
\* chunks, and a later store completed after it
C1_Witness ==
    /\ vault = "open"
    /\ Len(records) = 2
    /\ plain[1].known /\ plain[2].known
    /\ plain[1].data = <<65, 66, 67>>
    /\ IntOf(records[1].data_size) = 3
    /\ last.op \in {"store_from_buffer", "store_chunks"} /\ last.ok

\* C2: persistence. An open with the password of the Vault that was closed
\* last succeeds and yields the record list as it was in memory just before
\* that close: same names, data sizes, timestamps and decrypted payloads,
\* tombstones made by delete included.
C2_Persistence ==
    (last.op = "open" /\ atClose.valid /\ last.arg = atClose.pwd)
        => /\ last.ok
           /\ Snapshot(buffer, keys, records) = atClose.recs

\* C3: orphan payloads are invisible to scans. Once a store was interrupted
\* while writing its chunks, every later open with the file's password
\* succeeds and loads exactly the committed records with their payloads.
C3_OrphanInvisible ==
    (last.op = "open" /\ last.arg = flags.filePw /\ flags.failed /\ ~flags.foreign)
        => /\ last.ok
           /\ Len(records) = Len(committed)
           /\ \A k \in 1..Len(records) :
                  /\ records[k].name = committed[k].name
                  /\ read_item(buffer, keys, records[k]) = committed[k].data

\* C4: names longer than 64 bytes are rejected. A store on an open vault
\* whose encoded name exceeds NAME_LEN bytes fails, appends no record and
\* writes nothing to the buffer.
C4_LongNameRejected ==
    [][(vault = "open" /\ last'.op = "store_item" /\ Len(last'.arg) > NAME_LEN)
           => (~last'.ok /\ records' = records /\ buffer' = buffer)]_vars

\* a name the record format can hold and return: at most NAME_LEN bytes, no
\* trailing NUL
NameOk(n) == Len(n) <= NAME_LEN /\ (n = <<>> \/ n[Len(n)] # 0)

\* C5: name normalization. A record stored under a name of at most 64 bytes
\* without trailing NUL has that name, both in memory after the store and
\* after a scan reloaded it, leading and inner NUL bytes included.
C5_NameNormalization ==
    (vault = "open" /\ Clean /\ Len(records) = Len(committed)) =>
        \A k \in 1..Len(records) :
            NameOk(committed[k].name) => records[k].name = committed[k].name

\* C6: closed is terminal. On a closed vault every call of ls, of a store, of
\* read_item, read_all, or of the body of read_chunks ends in an error.
C6_ClosedIsTerminal ==
    (vault = "closed"
        /\ last.op \in {"ls", "store_item", "store_chunks", "store_from_buffer",
                        "read_item", "read_all", "read_chunks"})
        => ~last.ok

\* C7: an impossible data_size is a corruption error. No successful open
\* leaves a record whose payload would end beyond the end of the buffer.
C7_ImpossibleSizeIsError ==
    (last.op = "open" /\ last.ok) =>
        \A k \in 1..Len(records) :
            Plus(records[k].data_ptr, IntOf(records[k].data_size)) <= Len(buffer)

\* C8: chunk equivalence. Every chunk of read_chunks(i, chunk_size) but the
\* last has exactly chunk_size bytes, a record of data_size 0 yields no
\* chunk, and the chunks of an exhausted generator concatenate to
\* read_item(i).
C8_ChunkEquivalence ==
    gen.st \in {"running", "done"} =>
        /\ \A j \in 1..(Len(gen.out) - 1) : Len(gen.out[j]) = gen.chunk_size
        /\ IntOf(records[gen.k].data_size) = 0 => gen.out = <<>>
        /\ (gen.st = "done" /\ vault = "open") =>
               Concat(gen.out) = read_item(buffer, keys, records[gen.k])

\* C9: wrong password. A vault opened with a password other than the one
\* the file was made with returns, from no read_item, the plaintext of any
\* item that was stored.
C9_WrongPassword ==
    (vault = "open" /\ flags.pwd # flags.filePw /\ ~flags.failed /\ ~flags.foreign)
        => \A k \in 1..Len(records), c \in 1..Len(committed) :
               \A o \in read_item_outcomes(buffer, keys, records[k]) :
                   o.ok => o.data # committed[c].data

\* C10: append after reopen. In a clean history every open with the file's
\* password succeeds, and the open vault holds every stored item exactly
\* once, in insertion order, with its original bytes; the records tile the
\* buffer, so a store after a reopen starts at the end of the last loaded
\* record and overwrites nothing.
C10_AppendAfterReopen ==
    /\ (last.op = "open" /\ last.arg = flags.filePw /\ exists
            /\ ~flags.failed /\ ~flags.foreign) => last.ok
    /\ (vault = "open" /\ Clean) =>
           /\ Len(records) = Len(committed)
           /\ \A k \in 1..Len(records) :
                  /\ read_item(buffer, keys, records[k]) = committed[k].data
                  /\ IntOf(records[k].data_size) = Len(committed[k].data)
                  /\ records[k].data_ptr =
                         FULL_SIZE + (IF k = 1 THEN 0
                                      ELSE records[k - 1].data_ptr
                                           + IntOf(records[k - 1].data_size))
           /\ buffer_end(records) = Len(buffer)

\* one item stored in the first session, one in the second, both loaded by
\* the open of the third
C10_Witness ==
    /\ last.op = "open" /\ last.ok /\ Clean
    /\ flags.sessions = 3
    /\ Len(committed) = 2
    /\ committed[1].session = 1 /\ committed[1].data # <<>>
    /\ committed[2].session = 2

\* C11: index validation. read_item, read_chunks and export_item_to_file
\* called with an index outside 0..count-1 end in an error and return or
\* write no payload bytes.
C11_IndexValidation ==
    (last.op \in {"read_item", "read_chunks", "export_item_to_file"}
        /\ last.index \notin 0..(count(records) - 1))
        => (~last.ok /\ last.ret = <<>>)

\* C12: chunk-size validation. A read_chunks generator made with a
\* chunk_size of zero or less ends in an error once it is run, and a
\* store_from_buffer with such a chunk_size fails and commits no record.
C12_ChunkSizeValidation ==
    [][/\ (gen'.chunk_size <= 0 /\ gen'.st \in {"running", "done", "error"})
           => gen'.st = "error"
       /\ (last'.op = "store_from_buffer" /\ vault = "open"
             /\ \E chunk_size \in {c \in ChunkSizes : c <= 0}, t \in StoreTimes :
                    StoreFromBuffer(<<65, 66, 67>>, chunk_size, NameA, NonceA, NonceB, t))
           => (~last'.ok /\ records' = records)]_vars

\* C13: Vault.new on a path where a file exists fails and leaves the file as
\* it was; on a path where nothing exists it gives an open vault with no
\* records, buffer_end 0 and an empty file
C13_NoOverwriteOnCreate ==
    [][last'.op = "new" =>
         IF exists
         THEN ~last'.ok /\ buffer' = buffer /\ exists' /\ vault' = vault
                /\ records' = records
         ELSE last'.ok /\ exists' /\ vault' = "open" /\ count(records') = 0
                /\ buffer_end(records') = 0 /\ buffer' = <<>>]_vars

\* a new refused on the path of a closed vault that holds a record
C13_Witness ==
    last.op = "new" /\ ~last.ok /\ exists /\ Len(buffer) >= FULL_SIZE
        /\ committed # <<>>

\* C14: opening a vault, ls, read_item, read_all, read_chunks (the call and
\* every step of its generator) and close leave the buffer's bytes and
\* length as they were
ReadOps == {"open", "ls", "read_item", "read_all", "read_chunks_call",
            "read_chunks", "close"}

C14_ReadsDoNotWrite ==
    [][last'.op \in ReadOps => buffer' = buffer]_vars

\* a later session that read a record in chunks to the end and was closed
C14_Witness ==
    /\ flags.sessions = 2 /\ vault = "closed" /\ last.op = "close"
    /\ gen.st = "done" /\ gen.out # <<>>
    /\ Len(buffer) > FULL_SIZE

\* C15: a store that raises before its header write leaves the record list,
\* count and buffer_end as they were; every store that completes puts its
\* header at the buffer_end of the record list it found, whatever the
\* length of the buffer, so a store after a failed one begins where the
\* failed one began
StoreOps == {"store_item", "store_from_buffer", "store_chunks", "store_file",
             "copy"}

C15_FailedStoreChangesNothing ==
    [][last'.op \in StoreOps =>
         IF last'.ok
         THEN LET record_start == buffer_end(records)
                  n == Len(records') IN
              /\ n = Len(records) + 1
              /\ SubSeq(records', 1, n - 1) = records
              /\ records'[n].data_ptr = record_start + FULL_SIZE
              /\ SubSeq(buffer', record_start + 1, record_start + FULL_SIZE)
                     = dump(records'[n], keys)
         ELSE /\ records' = records
              /\ count(records') = count(records)
              /\ buffer_end(records') = buffer_end(records)]_vars

\* the first completed store of a vault, made after a store that failed
\* with payload bytes already written
C15_Witness ==
    /\ flags.failed /\ flags.sessions = 1 /\ vault = "open"
    /\ last.op \in StoreOps /\ last.ok
    /\ Len(records) = 1 /\ records[1].data_ptr = FULL_SIZE

\* C16: every store (store_item, store_chunks, store_from_buffer,
\* store_file, copy) writes only at offsets from the buffer_end it found:
\* the bytes before that offset, the headers and payloads of the committed
\* records, are the same after the call, whether it returned or raised
C16_AppendOnlyWrites ==
    [][last'.op \in StoreOps =>
         \A i \in 1..Min(buffer_end(records), Len(buffer)) :
             i <= Len(buffer') /\ buffer'[i] = buffer[i]]_vars

\* C18: a copy with a valid index, from another vault or from the vault
\* itself, appends one record whose read_item is what the source's
\* read_item returned before the call, and every record there was reads as
\* before
C18_Copy ==
    [][(last'.op = "copy" /\ vault = "open"
            /\ last'.index \in (-1)..(count(records) - 1)) =>
         /\ last'.ok
         /\ Len(records') = Len(records) + 1
         /\ read_item(buffer', keys', records'[Len(records')]) = last'.ret
         /\ \A k \in 1..Len(records) :
                /\ records'[k] = records[k]
                /\ read_item(buffer', keys', records'[k])
                       = read_item(buffer, keys, records[k])]_vars

\* C17: in every state of a vault made by new or open and changed by
\* stores, the records tile the buffer: the first payload begins at 104,
\* each next payload begins 104 past the end of the payload before it,
\* count is the length of the record list, and buffer_end is count * 104
\* plus the payload sizes, which is the offset just past the last payload
\* (0 for a vault without records)
EndOf(rec) == Plus(rec.data_ptr, IntOf(rec.data_size))

C17_LayoutInvariant ==
    vault # "none" =>
        /\ count(records) = Len(records)
        /\ buffer_end(records)
               = Plus(count(records) * FULL_SIZE, data_size(records))
        /\ buffer_end(records)
               = IF records = <<>> THEN 0 ELSE EndOf(records[Len(records)])
        /\ records # <<>> => records[1].data_ptr = FULL_SIZE
        /\ \A i \in 1..(Len(records) - 1) :
               records[i + 1].data_ptr = EndOf(records[i]) + FULL_SIZE

\* a later session that loaded a record with a payload and stored a second
C17_Witness ==
    /\ flags.sessions >= 2 /\ vault = "open"
    /\ last.op \in StoreOps /\ last.ok
    /\ Len(records) = 2 /\ IntOf(records[1].data_size) > 0
    /\ IntOf(records[2].data_size) > 0

\* C19: when other calls on the vault (read_item, chunks of another
\* generator, a complete store_item) run between the chunks of a
\* read_chunks generator, the chunks of the generator, once exhausted,
\* still concatenate to read_item of its record
LazyOk(g) ==
    (g.st = "done" /\ g.chunk_size > 0 /\ vault = "open") =>
        Concat(g.out) = read_item(buffer, keys, records[g.k])

C19_InterleavedLazyReads == LazyOk(gen) /\ LazyOk(gen2)

\* both generators exhausted, over different records, after each had the
\* buffer moved by another call between two of its chunks
C19_Witness ==
    /\ gen.st = "done" /\ gen.moved /\ Len(gen.out) = 2
    /\ gen2.st = "done" /\ gen2.moved /\ Len(gen2.out) >= 2
    /\ gen.k # gen2.k
    /\ Len(records) = 2

\* C20: the record table scan ends, by returning or by raising, for every
\* buffer content and password: an iteration that reads a non-empty
\* rec_nonce and goes on moves the position forward by at least 104, none
\* moves it backwards, the first empty read ends the loop, and the records
\* loaded are at most ceil(buffer length / 104)
C20_ScanStep ==
    vault = "loading" =>
        /\ pos' >= pos
        /\ (ReadAt(buffer, pos, NONCE_LEN) = <<>>)
               => (vault' = "open" /\ records' = records)
        /\ (ReadAt(buffer, pos, NONCE_LEN) # <<>>)
               => \/ vault' = "closed" /\ ~last'.ok
                  \/ /\ vault' = "loading"
                     /\ pos' >= pos + FULL_SIZE
                     /\ Len(records') = Len(records) + 1
        /\ Len(records') <= (Len(buffer) + FULL_SIZE - 1) \div FULL_SIZE

C20_ScanTermination ==
    /\ [][C20_ScanStep]_vars
    /\ (vault = "loading") ~> (vault # "loading")

\* a scan that took two iterations, the second after a seek over a payload,
\* and returned two records at the empty read
C20_Witness ==
    /\ vault = "open" /\ last.op = "open" /\ last.ok
    /\ Len(records) = 2 /\ IntOf(records[1].data_size) > 0
====
